---- MODULE Spec2Model ----
(***************************************************************************)
(* State machine of the App component of src/index.tsx: the mapping store  *)
(* (mapping, staticValues), the literal edit session, the filter rules,    *)
(* the deferred export and the localStorage configuration slot.            *)
(*                                                                         *)
(* One action per event handler.  A handler runs to completion on the      *)
(* single UI thread; React applies its state updates and then runs the     *)
(* save effect (lines 179-188) before the next event is delivered, so      *)
(* every action ends with SaveEffect.  The two asynchronous steps of the   *)
(* program, FileReader.onload and the setTimeout callback of generateFile, *)
(* are separate actions.                                                   *)
(***************************************************************************)
EXTENDS Integers, Sequences, FiniteSets, TLC

VARIABLES
    targetHeaders,        \* useState<string[]>            line 156
    sourceHeaders,        \* useState<string[]>            line 157
    sourceData,           \* useState<any[]>               line 158
    mapping,              \* useState<Mapping>             line 159
    draggedItem,          \* useState<string | null>       line 164
    isGenerating,         \* useState(false)               line 165
    outputFormat,         \* useState<'xlsx' | 'csv'>      line 168
    staticValues,         \* useState<{[key]: string}>     line 171
    editingStaticField,   \* useState<string | null>       line 172
    editingStaticValue,   \* useState('')                  line 173
    filters,              \* useState<Filter[]>            line 176
    localStorage,         \* the 'excelMapperConfig' slot  lines 186, 217
    readers,              \* FileReaders whose onload is still to come
    timers,               \* setTimeout callbacks of generateFile still to run
    written,              \* the last workbook handed to XLSX.writeFile
    now,                  \* Date.now()                    line 326
    lastOp                \* the handler that ran last, and how it ended

vars == <<targetHeaders, sourceHeaders, sourceData, mapping, draggedItem,
          isGenerating, outputFormat, staticValues, editingStaticField,
          editingStaticValue, filters, localStorage, readers, timers,
          written, now, lastOp>>

(***************************************************************************)
(* Bounds of the model.                                                    *)
(***************************************************************************)
MaxTextLen == 2      \* longest text typed into the literal input
MaxReaders == 1      \* file reads in flight at once
MaxFilters == 2      \* filter rules in the list
MaxClock   == 1      \* milliseconds the clock advances

(***************************************************************************)
(* JavaScript values.                                                      *)
(***************************************************************************)
\* null of `string | null`.  No header is blank (filter of lines 213, 242),
\* so the empty string never occurs as a mapped source header.
null == ""

\* row[col] of a key the row does not have
undefined == [undef |-> TRUE]

Str(s) == [str |-> s]
Num(n) == [num |-> n]

\* String(v), lines 199, 362, 461
JsString(v) ==
    IF "str" \in DOMAIN v THEN v.str
    ELSE IF "num" \in DOMAIN v THEN ToString(v.num)
    ELSE "undefined"

\* obj[key]
Prop(obj, key) == IF key \in DOMAIN obj THEN obj[key] ELSE undefined

\* Object.values(obj)
ObjectValues(obj) == {obj[k] : k \in DOMAIN obj}

\* { ...obj, [key]: value }
Spread(obj, key, value) ==
    [k \in (DOMAIN obj) \cup {key} |-> IF k = key THEN value ELSE obj[k]]

\* const next = {...obj}; delete next[key]
Delete(obj, key) == [k \in (DOMAIN obj) \ {key} |-> obj[k]]

\* the elements of an array (array.includes(x) is x \in Range(array));
\* array.filter(pred) is SelectSeq(array, pred)
Range(s) == {s[i] : i \in 1..Len(s)}

(***************************************************************************)
(* Text: a string as the sequence of its characters, so that trim() is     *)
(* computed and not assumed.                                               *)
(***************************************************************************)
Whitespace == {" "}
Chars == {" ", "v"}

RECURSIVE TrimStart(_)
TrimStart(t) ==
    IF t # <<>> /\ Head(t) \in Whitespace THEN TrimStart(Tail(t)) ELSE t

RECURSIVE TrimEnd(_)
TrimEnd(t) ==
    IF t # <<>> /\ t[Len(t)] \in Whitespace
    THEN TrimEnd(SubSeq(t, 1, Len(t) - 1)) ELSE t

\* trim() that strips the leading whitespace only
Trim_StartOnly(t) == TrimStart(t)

\* String.prototype.trim, lines 213, 242, 298
Trim(t) == TrimEnd(TrimStart(t))

\* the string spelled by a text
RECURSIVE Join(_)
Join(t) == IF t = <<>> THEN "" ELSE Head(t) \o Join(Tail(t))

Texts == UNION {[1..n -> Chars] : n \in 0..MaxTextLen}

\* the text that spells a string held in staticValues
TextOf(s) == CHOOSE t \in Texts : Join(t) = s

(***************************************************************************)
(* Uploaded files, as XLSX.utils.sheet_to_json returns them.  With         *)
(* {header: 1} a sheet is an array of rows and a row an array of cells; a  *)
(* header cell is a text, the empty text standing for an empty cell.       *)
(***************************************************************************)
RowAB    == << <<"A">>, <<" ">>, <<"B">> >>
RowBA    == << <<"B">>, <<"A">> >>
RowA     == << <<"A">>, <<>> >>
RowBlank == << <<" ">>, <<>> >>

TargetAB        == [json |-> <<RowAB>>]
TargetBA        == [json |-> <<RowBA, RowAB>>]
TargetA         == [json |-> <<RowA>>]
TargetHeaderless == [json |-> <<RowBlank>>]
TargetEmpty     == [json |-> <<>>]

TargetFiles == {TargetAB, TargetBA, TargetA, TargetHeaderless, TargetEmpty}

\* a source sheet: its first row, and its data rows as records keyed by
\* header in which an empty cell is an absent key (line 244)
SourceXY ==
    [json |-> << << <<"X">>, <<"Y">> >> >>,
     rows |-> << ("X" :> Str("SK") @@ "Y" :> Num(1)),
                 ("X" :> Str("CZ")),
                 ("X" :> Str("SK") @@ "Y" :> Str("1")) >>]

SourceYZ ==
    [json |-> << << <<"Y">>, <<" ">>, <<"Z">> >> >>,
     rows |-> << ("Y" :> Str("undefined") @@ "Z" :> Str("a")),
                 ("Z" :> Str("b")) >>]

SourceFiles == {SourceXY, SourceYZ}

\* (json[0] as string[]).filter(h => h && h.trim() !== ''), lines 213, 242
HeaderRow(row) ==
    LET kept == SelectSeq(row, LAMBDA h : h # <<>> /\ Trim(h) # <<>>)
    IN  [i \in 1..Len(kept) |-> Join(kept[i])]

(***************************************************************************)
(* The localStorage slot and JSON.                                         *)
(***************************************************************************)
\* localStorage.getItem returns null: nothing was ever stored
NoItem == [item |-> "none"]

\* a stored string that JSON.parse rejects
Garbage == [item |-> "garbage"]

\* JSON.stringify of a string or of null, line 186
JsonValue(v) == IF v = null THEN "null" ELSE "\"" \o v \o "\""

\* JSON.stringify of an object of strings and nulls, member by member
JsonObject(o) == [k \in DOMAIN o |-> JsonValue(o[k])]

\* JSON.stringify of an array of strings, element by element
JsonArray(a) == [i \in 1..Len(a) |-> JsonValue(a[i])]

\* JSON.stringify(config), line 186: the text of its three members
StringifyConfig(config) ==
    [item |-> "json",
     value |-> [targetHeaders |-> JsonArray(config.targetHeaders),
                mapping       |-> JsonObject(config.mapping),
                staticValues  |-> JsonObject(config.staticValues)]]

\* JSON.parse(savedConfigRaw) does not throw, line 221
Parses(raw) == raw.item = "json"

\* the strings a session can store: header names and trimmed texts
JsonStrings == {"A", "B", "X", "Y", "Z"} \cup {Join(t) : t \in Texts}

\* JSON.parse of the text of a string or of null
ParseValue(text) ==
    IF text = "null" THEN null
    ELSE CHOOSE v \in JsonStrings : "\"" \o v \o "\"" = text

\* JSON.parse(savedConfigRaw), line 221
ParseConfig(raw) ==
    [targetHeaders |-> [i \in DOMAIN raw.value.targetHeaders |->
                            ParseValue(raw.value.targetHeaders[i])],
     mapping       |-> [k \in DOMAIN raw.value.mapping |->
                            ParseValue(raw.value.mapping[k])],
     staticValues  |-> [k \in DOMAIN raw.value.staticValues |->
                            ParseValue(raw.value.staticValues[k])]]

\* JSON.stringify of an array of strings, line 222
RECURSIVE StringifyItems(_)
StringifyItems(a) ==
    IF a = <<>> THEN ""
    ELSE IF Len(a) = 1 THEN "\"" \o a[1] \o "\""
    ELSE "\"" \o a[1] \o "\"," \o StringifyItems(Tail(a))

StringifyArray(a) == "[" \o StringifyItems(a) \o "]"

\* a save effect that writes only once something is assigned
SaveEffect_OnlyConfigured(headers, map, statics, slot) ==
    IF Len(headers) > 0
       /\ ((\E v \in ObjectValues(map) : v # null) \/ DOMAIN statics # {})
    THEN StringifyConfig([targetHeaders |-> headers, mapping |-> map,
                          staticValues |-> statics])
    ELSE slot

\* a save effect that leaves the literals out of the snapshot
SaveEffect_MappingOnly(headers, map, statics, slot) ==
    IF Len(headers) > 0
    THEN StringifyConfig([targetHeaders |-> headers, mapping |-> map,
                          staticValues |-> <<>>])
    ELSE slot

\* the save effect, lines 179-188: what the slot holds after a render in
\* which targetHeaders, mapping or staticValues was set
SaveEffect(headers, map, statics, slot) ==
    IF Len(headers) > 0
    THEN StringifyConfig([targetHeaders |-> headers, mapping |-> map,
                          staticValues |-> statics])
    ELSE slot

(***************************************************************************)
(* Derived values of a render.                                             *)
(***************************************************************************)
\* mappedSourceHeaders, line 403
mappedSourceHeaders == ObjectValues(mapping)

\* hasMappings, line 404
hasMappings ==
    (\E v \in ObjectValues(mapping) : v # null) \/ DOMAIN staticValues # {}

\* mapping[header] is truthy
Mapped(map, header) == header \in DOMAIN map /\ map[header] # null

(***************************************************************************)
(* Initial state: the useState initialisers of lines 156-176.  The slot    *)
(* outlives the page, so a session starts with whatever an earlier session *)
(* (or anything else on the origin) left there.                            *)
(***************************************************************************)
EarlierConfig ==
    [targetHeaders |-> <<"A", "B">>,
     mapping       |-> ("A" :> "X" @@ "B" :> null),
     staticValues  |-> ("B" :> "v")]

InitialSlots == {NoItem, Garbage, StringifyConfig(EarlierConfig)}

Init ==
    /\ targetHeaders = <<>>
    /\ sourceHeaders = <<>>
    /\ sourceData = <<>>
    /\ mapping = <<>>
    /\ draggedItem = null
    /\ isGenerating = FALSE
    /\ outputFormat = "xlsx"
    /\ staticValues = <<>>
    /\ editingStaticField = null
    /\ editingStaticValue = <<>>
    /\ filters = <<>>
    /\ localStorage \in InitialSlots
    /\ readers = {}
    /\ timers = {}
    /\ written = [file |-> "none"]
    /\ now = 0
    /\ lastOp = "mount"

storeVars  == <<targetHeaders, mapping, staticValues, localStorage>>
sourceVars == <<sourceHeaders, sourceData>>
editVars   == <<editingStaticField, editingStaticValue>>
exportVars == <<isGenerating, outputFormat, timers, written>>

(***************************************************************************)
(* File upload, lines 202-250.                                             *)
(***************************************************************************)
\* handleFile up to reader.readAsBinaryString(file), lines 202-203, 249
handleFile(file, type) ==
    /\ Cardinality(readers) < MaxReaders
    /\ readers' = readers \cup {[file |-> file, type |-> type]}
    /\ lastOp' = "handleFile"
    /\ UNCHANGED <<storeVars, sourceVars, editVars, exportVars, draggedItem,
                   filters, now>>

\* a match that looks at the header names and not at their order
Restorable_AnyOrder(raw, headers) ==
    /\ raw # NoItem
    /\ Parses(raw)
    /\ Range(ParseConfig(raw).targetHeaders) = Range(headers)

\* the configuration of the slot applies to these headers, lines 219-222
Restorable(raw, headers) ==
    /\ raw # NoItem
    /\ Parses(raw)
    /\ StringifyArray(ParseConfig(raw).targetHeaders) = StringifyArray(headers)

\* newMapping of lines 233-234
BlankMapping(headers) == [h \in Range(headers) |-> null]

\* reader.onload with type === 'target', lines 210-240
OnloadTarget(file) ==
    IF Len(file.json) > 0
    THEN LET headers == HeaderRow(file.json[1])
             loadedFromStorage == Restorable(localStorage, headers)
             newMap == IF loadedFromStorage
                       THEN ParseConfig(localStorage).mapping
                       ELSE BlankMapping(headers)
             newStatic == IF loadedFromStorage
                          THEN ParseConfig(localStorage).staticValues
                          ELSE <<>>
         IN  /\ targetHeaders' = headers
             /\ mapping' = newMap
             /\ staticValues' = newStatic
             /\ localStorage' = SaveEffect(headers, newMap, newStatic, localStorage)
             /\ lastOp' = IF loadedFromStorage THEN "onload:restored"
                          ELSE IF localStorage = NoItem THEN "onload:reset:first"
                          ELSE IF ~Parses(localStorage) THEN "onload:reset:unparseable"
                          ELSE "onload:reset:mismatch"
             /\ UNCHANGED <<sourceVars, filters>>
    ELSE /\ lastOp' = "onload:alert"
         /\ UNCHANGED <<storeVars, sourceVars, filters>>

\* the source branch of reader.onload without setFilters([])
OnloadSource_KeepRules(file) ==
    /\ sourceHeaders' = HeaderRow(file.json[1])
    /\ sourceData' = file.rows
    /\ filters' = filters
    /\ lastOp' = "onload:source"
    /\ UNCHANGED storeVars

\* reader.onload with type === 'source', lines 241-247
OnloadSource(file) ==
    /\ sourceHeaders' = HeaderRow(file.json[1])
    /\ sourceData' = file.rows
    /\ filters' = <<>>
    /\ lastOp' = "onload:source"
    /\ UNCHANGED storeVars

\* reader.onload, lines 204-248
ReaderOnload(r) ==
    /\ r \in readers
    /\ readers' = readers \ {r}
    /\ IF r.type = "target" THEN OnloadTarget(r.file) ELSE OnloadSource(r.file)
    /\ UNCHANGED <<editVars, exportVars, draggedItem, now>>

(***************************************************************************)
(* Drag and drop, lines 252-279.                                           *)
(***************************************************************************)
\* onDragStart of a source field, lines 252-255; the field is draggable
\* only while it is not mapped, line 499
handleDragStart(header) ==
    /\ header \in Range(sourceHeaders)
    /\ header \notin mappedSourceHeaders
    /\ draggedItem' = header
    /\ lastOp' = "handleDragStart"
    /\ UNCHANGED <<storeVars, sourceVars, editVars, exportVars, filters,
                   readers, now>>

\* clearStaticValue that leaves the literal in place
clearStaticValue_Keep(statics, header) == statics

\* clearStaticValue, lines 282-288
clearStaticValue(statics, header) == Delete(statics, header)

\* the check of line 269 left out
SourceInUse_Never(map, sourceHeader) == FALSE

\* the check of line 269 made on the keys of the mapping instead of its values
SourceInUse_Keys(map, sourceHeader) == sourceHeader \in DOMAIN map

\* Object.values(mapping).includes(draggedItem), line 269
SourceInUse(map, sourceHeader) == sourceHeader \in ObjectValues(map)

\* onDrop of a target field, lines 266-275
handleDrop(targetHeader) ==
    /\ targetHeader \in Range(targetHeaders)
    /\ IF draggedItem # null /\ ~SourceInUse(mapping, draggedItem)
       THEN LET newMap == Spread(mapping, targetHeader, draggedItem)
                newStatic == clearStaticValue(staticValues, targetHeader)
            IN  /\ mapping' = newMap
                /\ staticValues' = newStatic
                /\ localStorage' = SaveEffect(targetHeaders, newMap, newStatic,
                                              localStorage)
                /\ lastOp' = "handleDrop:assigned"
       ELSE /\ UNCHANGED <<mapping, staticValues, localStorage>>
            /\ lastOp' = IF draggedItem # null
                         THEN "handleDrop:rejected:" \o targetHeader
                         ELSE "handleDrop:nothing"
    /\ draggedItem' = null
    /\ UNCHANGED <<targetHeaders, sourceVars, editVars, exportVars, filters,
                   readers, now>>

\* click on the mapped source field of a target field, lines 277-279, 554-558
unmapField(targetHeader) ==
    /\ targetHeader \in Range(targetHeaders)
    /\ editingStaticField # targetHeader
    /\ targetHeader \notin DOMAIN staticValues
    /\ Mapped(mapping, targetHeader)
    /\ mapping' = Spread(mapping, targetHeader, null)
    /\ localStorage' = SaveEffect(targetHeaders, mapping', staticValues,
                                  localStorage)
    /\ lastOp' = "unmapField"
    /\ UNCHANGED <<targetHeaders, staticValues, sourceVars, editVars,
                   exportVars, draggedItem, filters, readers, now>>

\* the clear button under a save effect that does not depend on
\* staticValues
ClearButton_Unsaved(header) ==
    /\ header \in Range(targetHeaders)
    /\ editingStaticField # header
    /\ header \in DOMAIN staticValues
    /\ staticValues' = clearStaticValue(staticValues, header)
    /\ localStorage' = localStorage
    /\ lastOp' = "clearStaticValue"
    /\ UNCHANGED <<targetHeaders, mapping, sourceVars, editVars, exportVars,
                   draggedItem, filters, readers, now>>

\* click on the clear button of a literal value, lines 545-552
ClearButton(header) ==
    /\ header \in Range(targetHeaders)
    /\ editingStaticField # header
    /\ header \in DOMAIN staticValues
    /\ staticValues' = clearStaticValue(staticValues, header)
    /\ localStorage' = SaveEffect(targetHeaders, mapping, staticValues',
                                  localStorage)
    /\ lastOp' = "clearStaticValue"
    /\ UNCHANGED <<targetHeaders, mapping, sourceVars, editVars, exportVars,
                   draggedItem, filters, readers, now>>

(***************************************************************************)
(* The literal edit session, lines 290-322.                                *)
(***************************************************************************)
\* the click reaches handleStaticEditStart: through the drop zone of an
\* empty field while nothing is edited (lines 528-532), or through the
\* literal shown for the field (lines 545-546)
EditStartOffered(header) ==
    \/ /\ ~Mapped(mapping, header)
       /\ header \notin DOMAIN staticValues
       /\ editingStaticField = null
    \/ /\ editingStaticField # header
       /\ header \in DOMAIN staticValues

\* handleStaticEditStart, lines 290-294
handleStaticEditStart(header) ==
    /\ header \in Range(targetHeaders)
    /\ EditStartOffered(header)
    /\ IF Mapped(mapping, header)
       THEN /\ UNCHANGED editVars
            /\ lastOp' = "handleStaticEditStart:mapped"
       ELSE /\ editingStaticValue' =
                   IF header \in DOMAIN staticValues
                   THEN TextOf(staticValues[header]) ELSE <<>>
            /\ editingStaticField' = header
            /\ lastOp' = "handleStaticEditStart"
    /\ UNCHANGED <<storeVars, sourceVars, exportVars, draggedItem, filters,
                   readers, now>>

\* onChange of the literal input, line 539
StaticInputChange(text) ==
    /\ editingStaticField # null
    /\ editingStaticField \in Range(targetHeaders)
    /\ text # editingStaticValue
    /\ editingStaticValue' = text
    /\ lastOp' = "setEditingStaticValue"
    /\ UNCHANGED <<storeVars, sourceVars, exportVars, draggedItem, filters,
                   readers, now, editingStaticField>>

\* handleStaticValueSave, lines 296-312, run by onBlur and by Enter; the
\* input exists only while a field is edited
handleStaticValueSave ==
    /\ editingStaticField # null
    /\ LET trimmedValue == Trim(editingStaticValue)
       IN  IF trimmedValue # <<>>
           THEN /\ staticValues' = Spread(staticValues, editingStaticField,
                                          Join(trimmedValue))
                /\ mapping' = Spread(mapping, editingStaticField, null)
                /\ lastOp' = "handleStaticValueSave:value"
           ELSE /\ staticValues' = clearStaticValue(staticValues,
                                                    editingStaticField)
                /\ mapping' = mapping
                /\ lastOp' = "handleStaticValueSave:blank"
    /\ localStorage' = SaveEffect(targetHeaders, mapping', staticValues',
                                  localStorage)
    /\ editingStaticField' = null
    /\ editingStaticValue' = <<>>
    /\ UNCHANGED <<targetHeaders, sourceVars, exportVars, draggedItem,
                   filters, readers, now>>

\* Escape in handleStaticKeyDown, lines 318-320
StaticEditCancel ==
    /\ editingStaticField # null
    /\ editingStaticField \in Range(targetHeaders)
    /\ editingStaticField' = null
    /\ editingStaticValue' = <<>>
    /\ lastOp' = "handleStaticKeyDown:Escape"
    /\ UNCHANGED <<storeVars, sourceVars, exportVars, draggedItem, filters,
                   readers, now>>

(***************************************************************************)
(* Filter rules, lines 190-200 and 325-347.                                *)
(***************************************************************************)
\* the clock moves on between two events
Tick ==
    /\ now < MaxClock
    /\ now' = now + 1
    /\ UNCHANGED <<storeVars, sourceVars, editVars, exportVars, draggedItem,
                   filters, readers, lastOp>>

\* the filter card is rendered, line 440
FilterCardShown == Len(sourceHeaders) > 0

\* handleAddFilter, lines 325-327
handleAddFilter ==
    /\ FilterCardShown
    /\ Len(filters) < MaxFilters
    /\ filters' = Append(filters, [id |-> now, column |-> "", value |-> <<>>])
    /\ lastOp' = "handleAddFilter"
    /\ UNCHANGED <<storeVars, sourceVars, editVars, exportVars, draggedItem,
                   readers, now>>

\* handleRemoveFilter, lines 329-331, from the button of row i, line 467
handleRemoveFilter(i) ==
    /\ FilterCardShown
    /\ i \in 1..Len(filters)
    /\ filters' = SelectSeq(filters, LAMBDA f : f.id # filters[i].id)
    /\ lastOp' = "handleRemoveFilter"
    /\ UNCHANGED <<storeVars, sourceVars, editVars, exportVars, draggedItem,
                   readers, now>>

\* handleFilterChange that drops the values only when the column differs
FilterChange_ResetOnChange(list, id, field, newValue) ==
    [k \in 1..Len(list) |->
        IF list[k].id = id
        THEN IF field = "column"
             THEN [id |-> list[k].id, column |-> newValue,
                   value |-> IF list[k].column = newValue THEN list[k].value
                             ELSE <<>>]
             ELSE [id |-> list[k].id, column |-> list[k].column,
                   value |-> newValue]
        ELSE list[k]]

\* handleFilterChange, lines 333-347
FilterChange(list, id, field, newValue) ==
    [k \in 1..Len(list) |->
        IF list[k].id = id
        THEN IF field = "column"
             THEN [id |-> list[k].id, column |-> newValue, value |-> <<>>]
             ELSE [id |-> list[k].id, column |-> list[k].column,
                   value |-> newValue]
        ELSE list[k]]

\* onChange of the column select of row i, lines 450-455
FilterColumnSelect(i, newCol) ==
    /\ FilterCardShown
    /\ i \in 1..Len(filters)
    /\ newCol \in Range(sourceHeaders)
    /\ filters' = FilterChange(filters, filters[i].id, "column", newCol)
    /\ lastOp' = "handleFilterChange:column"
    /\ UNCHANGED <<storeVars, sourceVars, editVars, exportVars, draggedItem,
                   readers, now>>

\* sourceData.map(row => row[columnName]).filter(...), lines 194-196
ColumnValues(data, columnName) ==
    SelectSeq([k \in 1..Len(data) |-> Prop(data[k], columnName)],
              LAMBDA v : v # undefined /\ v # Str(""))

\* Array.from(new Set(values)), lines 193, 199: the values in the order of
\* their first occurrence (a Set tells the number 1 from the string "1")
RECURSIVE ArrayFromSet(_)
ArrayFromSet(values) ==
    IF values = <<>> THEN <<>>
    ELSE LET front == ArrayFromSet(SubSeq(values, 1, Len(values) - 1))
             last  == values[Len(values)]
         IN  IF last \in Range(front) THEN front ELSE Append(front, last)

\* the order of localeCompare on the strings of the source files
LocaleOrder == <<"1", "a", "b", "CZ", "SK", "undefined">>

\* a.localeCompare(b), line 199
LocaleCompare(a, b) ==
    (CHOOSE i \in 1..Len(LocaleOrder) : LocaleOrder[i] = a)
        - (CHOOSE i \in 1..Len(LocaleOrder) : LocaleOrder[i] = b)

\* Array.prototype.sort, line 199: a stable sort by the strings of values
RECURSIVE SortByString(_)
SortByString(values) ==
    IF values = <<>> THEN <<>>
    ELSE LET front == SortByString(SubSeq(values, 1, Len(values) - 1))
             last  == values[Len(values)]
             k == Cardinality({i \in 1..Len(front) :
                      LocaleCompare(JsString(front[i]), JsString(last)) <= 0})
         IN  SubSeq(front, 1, k) \o <<last>> \o SubSeq(front, k + 1, Len(front))

\* getUniqueValuesForColumn, lines 190-200
getUniqueValuesForColumn(data, columnName) ==
    IF columnName = "" \/ Len(data) = 0 THEN <<>>
    ELSE SortByString(ArrayFromSet(ColumnValues(data, columnName)))

\* uniqueValues.map(String), line 461
OptionList(data, columnName) ==
    LET uniqueValues == getUniqueValuesForColumn(data, columnName)
    IN  [i \in 1..Len(uniqueValues) |-> JsString(uniqueValues[i])]

\* the options the value select of a rule offers, lines 459-465
ValueOptions(data, columnName) == Range(OptionList(data, columnName))

\* handleToggleOption, lines 103-108
ToggleOption(selectedValues, option) ==
    IF option \in Range(selectedValues)
    THEN SelectSeq(selectedValues, LAMBDA v : v # option)
    ELSE Append(selectedValues, option)

\* click on an option of the value select of row i, lines 459-465
FilterValueToggle(i, option) ==
    /\ FilterCardShown
    /\ i \in 1..Len(filters)
    /\ filters[i].column # ""
    /\ option \in ValueOptions(sourceData, filters[i].column)
    /\ filters' = FilterChange(filters, filters[i].id, "value",
                               ToggleOption(filters[i].value, option))
    /\ lastOp' = "handleFilterChange:value"
    /\ UNCHANGED <<storeVars, sourceVars, editVars, exportVars, draggedItem,
                   readers, now>>

(***************************************************************************)
(* Export, lines 349-401.                                                  *)
(***************************************************************************)
\* activeFilters that asks for a column only
ActiveFilters_ColumnOnly(list) ==
    SelectSeq(list, LAMBDA f : f.column # "")

\* activeFilters, line 357
ActiveFilters(list) ==
    SelectSeq(list, LAMBDA f : f.column # "" /\ Len(f.value) > 0)

\* the callback of activeFilters.every, lines 361-364
RowPasses(row, filter) ==
    LET rowValue == JsString(Prop(row, filter.column))
    IN  rowValue \in Range(filter.value)

\* dataToProcess with some() in the place of every()
DataToProcess_Any(list, data) ==
    LET activeFilters == ActiveFilters(list)
    IN  IF Len(activeFilters) > 0
        THEN SelectSeq(data, LAMBDA row :
                 \E k \in 1..Len(activeFilters) : RowPasses(row, activeFilters[k]))
        ELSE data

\* dataToProcess, lines 359-366
DataToProcess(list, data) ==
    LET activeFilters == ActiveFilters(list)
    IN  IF Len(activeFilters) > 0
        THEN SelectSeq(data, LAMBDA row :
                 \A k \in 1..Len(activeFilters) : RowPasses(row, activeFilters[k]))
        ELSE data

\* cellValue pushed as it is, without ?? ""
CellValue_NoCoalesce(row, targetHeader, map, statics) ==
    IF targetHeader \in DOMAIN statics THEN Str(statics[targetHeader])
    ELSE IF Mapped(map, targetHeader) THEN Prop(row, map[targetHeader])
    ELSE Str("")

\* cellValue ?? "" of lines 373-384
CellValue(row, targetHeader, map, statics) ==
    LET cellValue ==
            IF targetHeader \in DOMAIN statics THEN Str(statics[targetHeader])
            ELSE IF Mapped(map, targetHeader) THEN Prop(row, map[targetHeader])
            ELSE Str("")
    IN  IF cellValue = undefined THEN Str("") ELSE cellValue

\* newRow of lines 371-385
NewRow(row, headers, map, statics) ==
    [c \in 1..Len(headers) |-> CellValue(row, headers[c], map, statics)]

\* outputData of lines 368-387
OutputData(headers, map, statics, list, data) ==
    LET dataToProcess == DataToProcess(list, data)
    IN  << [c \in 1..Len(headers) |-> Str(headers[c])] >>
        \o [k \in 1..Len(dataToProcess) |->
                NewRow(dataToProcess[k], headers, map, statics)]

\* the values of the render that the setTimeout callback closes over
Closure ==
    [targetHeaders |-> targetHeaders, mapping |-> mapping,
     staticValues |-> staticValues, filters |-> filters,
     sourceData |-> sourceData, outputFormat |-> outputFormat]

\* generateFile up to setTimeout, lines 349-356
generateFile ==
    IF (\A v \in ObjectValues(mapping) : v = null) /\ DOMAIN staticValues = {}
    THEN /\ lastOp' = "generateFile:alert"
         /\ UNCHANGED <<isGenerating, timers>>
    ELSE /\ isGenerating' = TRUE
         /\ timers' = timers \cup {Closure}
         /\ lastOp' = "generateFile:started"

\* a generate button that is disabled only while nothing is assigned
GenerateClick_Ungated ==
    /\ Len(targetHeaders) > 0
    /\ IF ~hasMappings
       THEN /\ lastOp' = "generate:disabled"
            /\ UNCHANGED <<isGenerating, timers>>
       ELSE generateFile
    /\ UNCHANGED <<storeVars, sourceVars, editVars, outputFormat, written,
                   draggedItem, filters, readers, now>>

\* a generate button that is never disabled, on a generateFile that does
\* not look at what is configured
GenerateClick_Unchecked ==
    /\ Len(targetHeaders) > 0
    /\ isGenerating' = TRUE
    /\ timers' = timers \cup {Closure}
    /\ lastOp' = "generateFile:started"
    /\ UNCHANGED <<storeVars, sourceVars, editVars, outputFormat, written,
                   draggedItem, filters, readers, now>>

\* click on the generate button, lines 594-600; a disabled button
\* delivers no click
GenerateClick ==
    /\ Len(targetHeaders) > 0
    /\ IF isGenerating \/ ~hasMappings
       THEN /\ lastOp' = "generate:disabled"
            /\ UNCHANGED <<isGenerating, timers>>
       ELSE generateFile
    /\ UNCHANGED <<storeVars, sourceVars, editVars, outputFormat, written,
                   draggedItem, filters, readers, now>>

\* a callback that reads the state of the latest render
TimerCallback_Live(t) ==
    /\ t \in timers
    /\ timers' = timers \ {t}
    /\ written' =
          [file |-> IF outputFormat = "xlsx" THEN "mapped_data.xlsx"
                    ELSE "mapped_data.csv",
           table |-> OutputData(targetHeaders, mapping, staticValues,
                                filters, sourceData)]
    /\ isGenerating' = FALSE
    /\ lastOp' = "generateFile:written"
    /\ UNCHANGED <<storeVars, sourceVars, editVars, outputFormat, draggedItem,
                   filters, readers, now>>

\* a callback that does not call setIsGenerating(false)
TimerCallback_StaysBusy(t) ==
    /\ t \in timers
    /\ timers' = timers \ {t}
    /\ written' =
          [file |-> IF t.outputFormat = "xlsx" THEN "mapped_data.xlsx"
                    ELSE "mapped_data.csv",
           table |-> OutputData(t.targetHeaders, t.mapping, t.staticValues,
                                t.filters, t.sourceData)]
    /\ isGenerating' = isGenerating
    /\ lastOp' = "generateFile:written"
    /\ UNCHANGED <<storeVars, sourceVars, editVars, outputFormat, draggedItem,
                   filters, readers, now>>

\* the setTimeout callback, lines 356-400
TimerCallback(t) ==
    /\ t \in timers
    /\ timers' = timers \ {t}
    /\ written' =
          [file |-> IF t.outputFormat = "xlsx" THEN "mapped_data.xlsx"
                    ELSE "mapped_data.csv",
           table |-> OutputData(t.targetHeaders, t.mapping, t.staticValues,
                                t.filters, t.sourceData)]
    /\ isGenerating' = FALSE
    /\ lastOp' = "generateFile:written"
    /\ UNCHANGED <<storeVars, sourceVars, editVars, outputFormat, draggedItem,
                   filters, readers, now>>

\* onChange of the output format radio buttons, lines 572-588
setOutputFormat(format) ==
    /\ Len(targetHeaders) > 0
    /\ format # outputFormat
    /\ outputFormat' = format
    /\ lastOp' = "setOutputFormat"
    /\ UNCHANGED <<storeVars, sourceVars, editVars, isGenerating, timers,
                   written, draggedItem, filters, readers, now>>

(***************************************************************************)
(* The program.                                                            *)
(***************************************************************************)
Columns == {"A", "B"}
Formats == {"xlsx", "csv"}

Next ==
    \/ \E f \in TargetFiles : handleFile(f, "target")
    \/ \E f \in SourceFiles : handleFile(f, "source")
    \/ \E r \in readers : ReaderOnload(r)
    \/ \E h \in Range(sourceHeaders) : handleDragStart(h)
    \/ \E c \in Columns : handleDrop(c)
    \/ \E c \in Columns : unmapField(c)
    \/ \E c \in Columns : ClearButton(c)
    \/ \E c \in Columns : handleStaticEditStart(c)
    \/ \E t \in Texts : StaticInputChange(t)
    \/ handleStaticValueSave
    \/ StaticEditCancel
    \/ Tick
    \/ handleAddFilter
    \/ \E i \in 1..MaxFilters : handleRemoveFilter(i)
    \/ \E i \in 1..MaxFilters, col \in Range(sourceHeaders) : FilterColumnSelect(i, col)
    \/ \E i \in 1..MaxFilters :
          \E o \in ValueOptions(sourceData, IF i \in 1..Len(filters) THEN filters[i].column ELSE "") :
              FilterValueToggle(i, o)
    \/ GenerateClick
    \/ \E t \in timers : TimerCallback(t)
    \/ \E fmt \in Formats : setOutputFormat(fmt)

Spec == Init /\ [][Next]_vars

(***************************************************************************)
(* The mapping store with its cache and its edit session: the program      *)
(* with two target files and one source file, without the filter card and  *)
(* the generate button.                                                    *)
(***************************************************************************)
StoreTargetFiles == {TargetAB, TargetA}

NextStore ==
    \/ \E f \in StoreTargetFiles : handleFile(f, "target")
    \/ handleFile(SourceXY, "source")
    \/ \E r \in readers : ReaderOnload(r)
    \/ \E h \in Range(sourceHeaders) : handleDragStart(h)
    \/ \E c \in Columns : handleDrop(c)
    \/ \E c \in Columns : unmapField(c)
    \/ \E c \in Columns : ClearButton(c)
    \/ \E c \in Columns : handleStaticEditStart(c)
    \/ \E t \in Texts : StaticInputChange(t)
    \/ handleStaticValueSave
    \/ StaticEditCancel

SpecStore == Init /\ [][NextStore]_vars

(***************************************************************************)
(* The export of a restored configuration: the program with one target and *)
(* one source file, the clear gestures and the generate button.            *)
(***************************************************************************)
NextExport ==
    \/ handleFile(TargetAB, "target")
    \/ handleFile(SourceXY, "source")
    \/ \E r \in readers : ReaderOnload(r)
    \/ \E c \in Columns : unmapField(c)
    \/ \E c \in Columns : ClearButton(c)
    \/ GenerateClick
    \/ \E t \in timers : TimerCallback(t)
    \/ \E fmt \in Formats : setOutputFormat(fmt)

SpecExport == Init /\ [][NextExport]_vars

\* the export with its timer: a callback handed to setTimeout (line 356)
\* is run by the event loop once its delay is over
SpecExportFair == SpecExport /\ WF_vars(\E t \in timers : TimerCallback(t))

(***************************************************************************)
(* The setTimeout callback as a function of what it closes over: every     *)
(* initial state is a state of the program right after generateFile set    *)
(* the timer, and the only step is the callback.                           *)
(***************************************************************************)
\* the arrays that handleToggleOption builds from a set of options
Selections(options) ==
    {sel \in UNION {[1..n -> options] : n \in 0..Cardinality(options)} :
        \A i, j \in 1..Len(sel) : i # j => sel[i] # sel[j]}

\* the rules the filter card can hold for a dataset
RulesOf(data, headers) ==
    UNION {{[column |-> col, value |-> sel] :
               sel \in Selections(ValueOptions(data, col))} :
           col \in {""} \cup Range(headers)}

\* the filter lists of at most MaxFilters rules, with the ids of rules
\* added at consecutive milliseconds
FilterLists(data, headers) ==
    UNION {{[k \in 1..n |-> [id |-> k - 1, column |-> rules[k].column,
                             value |-> rules[k].value]] :
               rules \in [1..n -> RulesOf(data, headers)]} : n \in 0..MaxFilters}

InitGenerate ==
    /\ targetHeaders \in {<<"A", "B">>, <<"B", "A">>}
    /\ mapping \in [Columns -> {null, "X", "Y"}]
    /\ \A a, b \in Columns : (a # b /\ mapping[a] # null) => mapping[a] # mapping[b]
    /\ \E literals \in SUBSET {c \in Columns : mapping[c] = null} :
           staticValues = [c \in literals |-> "v"]
    /\ hasMappings
    /\ \E file \in SourceFiles :
           /\ sourceHeaders = HeaderRow(file.json[1])
           /\ sourceData = file.rows
    /\ filters \in FilterLists(sourceData, sourceHeaders)
    /\ outputFormat \in Formats
    /\ localStorage = SaveEffect(targetHeaders, mapping, staticValues, NoItem)
    /\ draggedItem = null
    /\ editingStaticField = null
    /\ editingStaticValue = <<>>
    /\ readers = {}
    /\ isGenerating = TRUE
    /\ timers = {Closure}
    /\ written = [file |-> "none"]
    /\ now = Len(filters)
    /\ lastOp = "generateFile:started"

NextGenerate == \E t \in timers : TimerCallback(t)

SpecGenerate == InitGenerate /\ [][NextGenerate]_vars

(***************************************************************************)
(* The vocabulary of the specification.                                    *)
(***************************************************************************)
\* the Assignment of a target column (section 3 of the specification)
Assignment(map, statics, c) ==
    IF c \in DOMAIN statics THEN <<"Literal", statics[c]>>
    ELSE IF Mapped(map, c) THEN <<"FromSource", map[c]>>
    ELSE <<"Unassigned">>

\* every column name the store knows
Known == DOMAIN mapping \cup DOMAIN staticValues \cup Columns

\* a text without the whitespace at its two ends, said without recursion
Stripped(t) ==
    LET solid == {i \in 1..Len(t) : t[i] \notin Whitespace}
    IN  IF solid = {} THEN <<>>
        ELSE LET lo == CHOOSE i \in solid : \A j \in solid : i <= j
                 hi == CHOOSE i \in solid : \A j \in solid : j <= i
             IN  [k \in 1..(hi - lo + 1) |-> t[lo + k - 1]]

\* a drop that the store accepts: something is dragged and no column has it
DropAccepted == draggedItem # null /\ \A a \in DOMAIN mapping : mapping[a] # draggedItem

\* the other columns keep their assignment over a step
OthersKept(c) ==
    \A d \in Known \ {c} :
        Assignment(mapping', staticValues', d) = Assignment(mapping, staticValues, d)

(***************************************************************************)
(* Claims about the mapping store.                                         *)
(***************************************************************************)
\* C1 (Invariant A): in every reachable state no target column has both a
\* source mapping (mapping[col] non-null) and a literal value
\* (staticValues[col] defined).
InvariantA ==
    \A c \in Known : ~(Mapped(mapping, c) /\ c \in DOMAIN staticValues)

\* C1 witness: a source field was dropped on the column whose literal "v"
\* is in the input; the column is mapped and has no literal.
WitnessA ==
    /\ lastOp = "handleDrop:assigned"
    /\ editingStaticField # null
    /\ editingStaticValue = <<"v">>
    /\ Mapped(mapping, editingStaticField)
    /\ editingStaticField \notin DOMAIN staticValues

\* C2 (Invariant B): in every reachable state each source header is the
\* source mapping of at most one target column.
InvariantB ==
    \A a, b \in DOMAIN mapping :
        (a # b /\ mapping[a] # null) => mapping[a] # mapping[b]

\* C2 witness: a target load restored a cached configuration that maps a
\* column, while that source header is still the dragged item.
WitnessB ==
    /\ lastOp = "onload:restored"
    /\ \E c \in DOMAIN mapping : mapping[c] # null /\ mapping[c] = draggedItem

\* C3: a drop of a source header that another column already has changes
\* no mapping, no literal value and not the cached snapshot.
RejectedDropIsNoOp ==
    [][\A b \in Columns :
          ( /\ handleDrop(b)
            /\ draggedItem # null
            /\ \E a \in DOMAIN mapping : a # b /\ mapping[a] = draggedItem )
          => UNCHANGED <<mapping, staticValues, localStorage>>]_vars

\* C3 witness: the drop on B of the header that A has was rejected.
WitnessRejected ==
    /\ lastOp = "handleDrop:rejected:B"
    /\ Mapped(mapping, "A")
    /\ ~Mapped(mapping, "B")

\* C4: after an accepted drop of s on c, c is FromSource(s) with no literal;
\* after a save of a text that is not blank, the edited column is
\* Literal(trim(text)) with no source mapping; every other column keeps its
\* assignment.
LastAssignmentWins ==
    [][ /\ \A c \in Columns :
              (handleDrop(c) /\ DropAccepted) =>
                  /\ Assignment(mapping', staticValues', c) = <<"FromSource", draggedItem>>
                  /\ c \notin DOMAIN staticValues'
                  /\ OthersKept(c)
        /\ (handleStaticValueSave /\ Stripped(editingStaticValue) # <<>>) =>
              /\ Assignment(mapping', staticValues', editingStaticField)
                     = <<"Literal", Join(Stripped(editingStaticValue))>>
              /\ ~Mapped(mapping', editingStaticField)
              /\ OthersKept(editingStaticField) ]_vars

\* C4 witness: a literal was saved on one column while another is mapped.
WitnessLastWins ==
    /\ lastOp = "handleStaticValueSave:value"
    /\ \E c \in DOMAIN staticValues, d \in DOMAIN mapping :
           c # d /\ staticValues[c] = "v" /\ Mapped(mapping, d)

\* what clear(c) of the specification leaves: the clear button of a literal
\* (clearStaticValue) or the click on a mapped source field (unmapField)
Cleared(map, statics, c) ==
    IF c \in DOMAIN statics
    THEN [mapping |-> map, staticValues |-> Delete(statics, c)]
    ELSE IF Mapped(map, c)
         THEN [mapping |-> Spread(map, c, null), staticValues |-> statics]
         ELSE [mapping |-> map, staticValues |-> statics]

\* C5: a save of a text that is blank after trimming leaves the edited
\* column Unassigned, whatever it was before, in the state clear(c) would
\* produce.
BlankLiteralIsClear ==
    [][(handleStaticValueSave /\ Stripped(editingStaticValue) = <<>>) =>
          /\ Assignment(mapping', staticValues', editingStaticField) = <<"Unassigned">>
          /\ mapping' = Cleared(mapping, staticValues, editingStaticField).mapping
          /\ staticValues' = Cleared(mapping, staticValues, editingStaticField).staticValues
      ]_vars

(***************************************************************************)
(* Claims about the export.                                                *)
(***************************************************************************)
\* C6: with every target column Unassigned and no literal value set, a
\* click on the generate button writes no table, sets no timer, does not
\* set the busy flag and changes no mapping, literal value, filter, dataset
\* or cached snapshot.
ExportPrecondition ==
    [][( /\ GenerateClick
         /\ \A c \in Range(targetHeaders) :
                Assignment(mapping, staticValues, c) = <<"Unassigned">>
         /\ DOMAIN staticValues = {} )
       => UNCHANGED <<written, timers, isGenerating, mapping, staticValues,
                      filters, sourceHeaders, sourceData, targetHeaders,
                      localStorage>>]_vars

\* C6 witness: the generate button was clicked with nothing configured.
WitnessPrecondition ==
    /\ lastOp = "generate:disabled"
    /\ \A c \in Range(targetHeaders) :
           Assignment(mapping, staticValues, c) = <<"Unassigned">>
    /\ DOMAIN staticValues = {}
    /\ ~isGenerating
    /\ written.file = "none"

\* the cell of a target column for a source row, as the specification
\* resolves it (section 4.3, step 3)
ExpectedCell(row, col, t) ==
    IF col \in DOMAIN t.staticValues THEN Str(t.staticValues[col])
    ELSE IF Mapped(t.mapping, col) /\ t.mapping[col] \in DOMAIN row
         THEN row[t.mapping[col]]
    ELSE Str("")

ExpectedRow(row, t) ==
    [c \in 1..Len(t.targetHeaders) |-> ExpectedCell(row, t.targetHeaders[c], t)]

\* C7: the exported table is the header row, equal to the target schema in
\* order, followed by one row per filtered source row in order; every row
\* has the length of the schema and every cell is the literal value if one
\* is set, else the raw value at the mapped source header if the row has
\* one, else the empty string.
TableIsProjection ==
    [][\A t \in timers : TimerCallback(t) =>
          LET table == written'.table
              rows == DataToProcess(t.filters, t.sourceData)
          IN  /\ Len(table) = 1 + Len(rows)
              /\ Len(table[1]) = Len(t.targetHeaders)
              /\ \A c \in 1..Len(t.targetHeaders) :
                     table[1][c] = Str(t.targetHeaders[c])
              /\ \A k \in 1..Len(rows) :
                     /\ Len(table[k + 1]) = Len(t.targetHeaders)
                     /\ table[k + 1] = ExpectedRow(rows[k], t)]_vars

\* C7 witness: the scenario of section 8 on the three-row dataset: A mapped
\* to X, B the literal "v", no filter.
WitnessProjection ==
    /\ lastOp = "generateFile:written"
    /\ written.table = << <<Str("A"), Str("B")>>,
                          <<Str("SK"), Str("v")>>,
                          <<Str("CZ"), Str("v")>>,
                          <<Str("SK"), Str("v")>> >>

\* a rule is active: it has a column and at least one value
IsActive(rule) == rule.column # "" /\ rule.value # <<>>

NoActiveRule(list) == \A k \in 1..Len(list) : ~IsActive(list[k])

\* C8: with no active rule, whatever inactive rules there are, the rows
\* exported are all rows of the source dataset, in order.
IdentityFilter ==
    [][\A t \in timers : (TimerCallback(t) /\ NoActiveRule(t.filters)) =>
          LET table == written'.table
          IN  /\ Len(table) = 1 + Len(t.sourceData)
              /\ \A k \in 1..Len(t.sourceData) :
                     table[k + 1] = ExpectedRow(t.sourceData[k], t)]_vars

\* C8 witness: an export ran with a rule without column and a rule with a
\* column and no values, and wrote every row.
WitnessIdentity ==
    /\ lastOp = "generateFile:written"
    /\ \E i, j \in 1..Len(filters) :
           /\ filters[i].column = ""
           /\ filters[j].column # "" /\ filters[j].value = <<>>
    /\ NoActiveRule(filters)
    /\ Len(sourceData) > 1
    /\ Len(written.table) = 1 + Len(sourceData)

\* the string a cell is compared as, given the string of an absent cell
Comparable(v, absent) == IF v = undefined THEN absent ELSE JsString(v)

\* the rows that satisfy every active rule, by index
MatchingRows(t, absent) ==
    {k \in 1..Len(t.sourceData) :
        \A j \in 1..Len(t.filters) :
            IsActive(t.filters[j]) =>
                \E v \in 1..Len(t.filters[j].value) :
                    t.filters[j].value[v]
                        = Comparable(Prop(t.sourceData[k], t.filters[j].column),
                                     absent)}

\* the j-th smallest element of a set of indices
Nth(S, j) == CHOOSE k \in S : Cardinality({i \in S : i <= k}) = j

\* the table holds exactly the rows of the given indices, in order
TableHolds(table, t, S) ==
    /\ Len(table) = 1 + Cardinality(S)
    /\ \A j \in 1..Cardinality(S) :
           table[j + 1] = ExpectedRow(t.sourceData[Nth(S, j)], t)

\* C9: with an active rule, the rows exported are exactly the source rows
\* whose string form at the column of every active rule (String(cell),
\* "undefined" for an absent cell) is one of the values of the rule, in
\* their original order.
FilterIsConjunction ==
    [][\A t \in timers : (TimerCallback(t) /\ ~NoActiveRule(t.filters)) =>
          TableHolds(written'.table, t, MatchingRows(t, "undefined"))]_vars

\* C9 witness: two active rules, on X and on Y, kept two of the three rows.
WitnessConjunction ==
    /\ lastOp = "generateFile:written"
    /\ \E i, j \in 1..Len(filters) :
           /\ filters[i].column = "X" /\ filters[i].value = <<"SK">>
           /\ filters[j].column = "Y" /\ filters[j].value = <<"1">>
    /\ Len(sourceData) = 3
    /\ Len(written.table) = 3

\* C10: an absent cell is compared as the empty string: the rows exported
\* are those that match with cellToComparable, so a row without a value at
\* the column of an active rule is exported only if "" is a value of the rule.
AbsentIsEmptyString ==
    [][\A t \in timers : (TimerCallback(t) /\ ~NoActiveRule(t.filters)) =>
          TableHolds(written'.table, t, MatchingRows(t, ""))]_vars

(***************************************************************************)
(* The filter card: the program on a first visit with its source files,    *)
(* the clock and the rule list, without target file and export.            *)
(***************************************************************************)
InitFilter == Init /\ localStorage = NoItem

NextFilter ==
    \/ \E f \in SourceFiles : handleFile(f, "source")
    \/ \E r \in readers : ReaderOnload(r)
    \/ Tick
    \/ handleAddFilter
    \/ \E i \in 1..MaxFilters : handleRemoveFilter(i)
    \/ \E i \in 1..MaxFilters, col \in Range(sourceHeaders) : FilterColumnSelect(i, col)
    \/ \E i \in 1..MaxFilters :
          \E o \in ValueOptions(sourceData, IF i \in 1..Len(filters) THEN filters[i].column ELSE "") :
              FilterValueToggle(i, o)

SpecFilter == InitFilter /\ [][NextFilter]_vars

\* the columns a source file can have
SourceColumns == {"X", "Y", "Z"}

\* C11: choosing a column for the rule with a given id leaves every rule of
\* that id with the chosen column and no selected value, whatever column
\* and values it had (the same column included), and leaves every rule of
\* another id, the ids and the order of the list as they were.
SetRuleColumnResets ==
    [][\A i \in 1..MaxFilters, col \in SourceColumns :
          FilterColumnSelect(i, col) =>
              /\ Len(filters') = Len(filters)
              /\ \A k \in 1..Len(filters) :
                    /\ filters'[k].id = filters[k].id
                    /\ IF filters[k].id = filters[i].id
                       THEN /\ filters'[k].column = col
                            /\ filters'[k].value = <<>>
                       ELSE filters'[k] = filters[k]]_vars

\* a column was chosen for one rule while another rule keeps its column and
\* its selected values
WitnessColumnReset ==
    /\ lastOp = "handleFilterChange:column"
    /\ \E i, k \in 1..Len(filters) :
          /\ filters[i].id # filters[k].id
          /\ filters[i].column # ""
          /\ filters[i].value = <<>>
          /\ filters[k].column # ""
          /\ filters[k].value # <<>>

\* C12: the load of a source file leaves the rule list empty.
SourceUploadClearsRules ==
    [][\A r \in readers :
          (ReaderOnload(r) /\ r.type = "source") => filters' = <<>>]_vars

\* the second source file has just been loaded at a time when rules could
\* have been added, and no rule is left
WitnessRulesCleared ==
    /\ lastOp = "onload:source"
    /\ sourceHeaders = <<"Y", "Z">>
    /\ now > 0
    /\ filters = <<>>

(***************************************************************************)
(* The cache slot: the program with all of its target files, one source    *)
(* file, drag and drop, the clear gestures and the typing of one literal.  *)
(***************************************************************************)
\* the text typed into the inline input
CacheTexts == {<<"v", "v">>}

NextCache ==
    \/ \E f \in TargetFiles : handleFile(f, "target")
    \/ handleFile(SourceXY, "source")
    \/ \E r \in readers : ReaderOnload(r)
    \/ \E h \in Range(sourceHeaders) : handleDragStart(h)
    \/ \E c \in Columns : handleDrop(c)
    \/ \E c \in Columns : unmapField(c)
    \/ \E c \in Columns : ClearButton(c)
    \/ \E c \in Columns : handleStaticEditStart(c)
    \/ \E t \in CacheTexts : StaticInputChange(t)
    \/ handleStaticValueSave
    \/ StaticEditCancel

SpecCache == Init /\ [][NextCache]_vars

(***************************************************************************)
(* Claims about the cache.                                                 *)
(***************************************************************************)
\* the slot holds a snapshot saved under this header sequence
SlotHolds(slot, headers) ==
    /\ slot.item = "json"
    /\ ParseConfig(slot).targetHeaders = headers

\* every column of the schema is Unassigned and there is no literal
AllUnassigned(headers, map, statics) ==
    /\ DOMAIN map = Range(headers)
    /\ \A c \in Range(headers) : Assignment(map, statics, c) = <<"Unassigned">>
    /\ statics = <<>>

\* the load of a target file with at least one row completes
TargetLoad(r) ==
    /\ ReaderOnload(r)
    /\ r.type = "target"
    /\ Len(r.file.json) > 0

\* C13: a target load that finds the slot empty, unparseable or holding a
\* snapshot of another header sequence (another header, order or count)
\* leaves every column of the loaded schema Unassigned and no literal.
RestoreOnlyOnMatch ==
    [][\A r \in readers :
          (TargetLoad(r) /\ ~SlotHolds(localStorage, targetHeaders')) =>
              AllUnassigned(targetHeaders', mapping', staticValues')]_vars

\* the schema B, A was loaded while the slot held a snapshot of another
\* header sequence, and nothing is assigned
WitnessMismatch ==
    /\ lastOp = "onload:reset:mismatch"
    /\ targetHeaders = <<"B", "A">>
    /\ AllUnassigned(targetHeaders, mapping, staticValues)

\* C14 (round trip): a target load whose header sequence is the one already
\* loaded leaves the source mappings and the literals exactly as they were
\* just before the load.
RoundTrip ==
    [][\A r \in readers :
          ( /\ TargetLoad(r)
            /\ Len(targetHeaders) > 0
            /\ targetHeaders' = targetHeaders )
          => /\ mapping' = mapping
             /\ staticValues' = staticValues]_vars

\* the schema A, B was loaded again and the restored store holds the
\* literal typed for A and the source field dropped on B in this session
WitnessRoundTrip ==
    /\ lastOp = "onload:restored"
    /\ targetHeaders = <<"A", "B">>
    /\ Assignment(mapping, staticValues, "A") = <<"Literal", "vv">>
    /\ Assignment(mapping, staticValues, "B") = <<"FromSource", "Y">>

\* what a reader of the slot gets back is the store as it is
SlotIsSnapshot(slot, headers, map, statics) ==
    /\ slot.item = "json"
    /\ ParseConfig(slot) = [targetHeaders |-> headers, mapping |-> map,
                            staticValues |-> statics]

\* C15 (save on every mutation): after every step that ends with a
\* non-empty target schema the slot holds exactly the current header
\* sequence, source mappings and literals; a step that ends with no target
\* schema loaded does not write the slot.
SaveOnEveryMutation ==
    [][IF Len(targetHeaders') > 0
       THEN SlotIsSnapshot(localStorage', targetHeaders', mapping',
                           staticValues')
       ELSE localStorage' = localStorage]_vars

\* a literal was just cleared under a loaded schema that still has an
\* assignment, and the slot holds the store
WitnessSaved ==
    /\ lastOp = "clearStaticValue"
    /\ Len(targetHeaders) > 0
    /\ hasMappings
    /\ SlotIsSnapshot(localStorage, targetHeaders, mapping, staticValues)

\* a target file without a row, or whose first row has no cell with
\* anything but whitespace
Malformed(file) ==
    \/ Len(file.json) = 0
    \/ \A i \in 1..Len(file.json[1]) : Stripped(file.json[1][i]) = <<>>

\* C16: the load of a malformed target file (no row, or a first row without
\* a non-blank header) leaves the target schema, the source mappings, the
\* literals and the slot exactly as they were.
MalformedUploadKeepsState ==
    [][\A r \in readers :
          (ReaderOnload(r) /\ r.type = "target" /\ Malformed(r.file)) =>
              UNCHANGED <<targetHeaders, mapping, staticValues,
                          localStorage>>]_vars

\* C20 (single slot): a target load that replaces a loaded schema by a
\* schema of another header sequence leaves every column Unassigned and no
\* literal, and overwrites the slot with that blank store; so after T1, T2,
\* T1 nothing of what was configured under T1 is left.
SingleSlot ==
    [][\A r \in readers :
          ( /\ TargetLoad(r)
            /\ Len(targetHeaders) > 0
            /\ Len(targetHeaders') > 0
            /\ targetHeaders' # targetHeaders )
          => /\ AllUnassigned(targetHeaders', mapping', staticValues')
             /\ SlotIsSnapshot(localStorage', targetHeaders', mapping',
                               staticValues')]_vars

\* the schema A, B was loaded when the slot held the snapshot of another
\* schema loaded in between; nothing is assigned and the slot says so
WitnessSingleSlot ==
    /\ lastOp = "onload:reset:mismatch"
    /\ targetHeaders = <<"A", "B">>
    /\ AllUnassigned(targetHeaders, mapping, staticValues)
    /\ SlotIsSnapshot(localStorage, targetHeaders, mapping, staticValues)

(***************************************************************************)
(* Claims about the export gate.                                           *)
(***************************************************************************)
\* C17 (export gate): a click on the generate button while an export is in
\* flight changes neither the busy flag nor the pending callbacks nor the
\* written file; the busy flag is set exactly while a callback is pending,
\* and never more than one callback is pending.
ExportGate ==
    [][/\ Cardinality(timers') <= 1
       /\ isGenerating' <=> (timers' # {})
       /\ (isGenerating /\ GenerateClick) =>
              UNCHANGED <<isGenerating, timers, written>>]_vars

\* the generate button was clicked while something is assigned and an
\* export is in flight; one callback is pending
WitnessGate ==
    /\ lastOp = "generate:disabled"
    /\ hasMappings
    /\ isGenerating
    /\ Cardinality(timers) = 1

\* C18: no step but the callback itself takes a pending callback away, and
\* whenever the busy flag is set it is eventually unset with a file
\* written.
ExportCompletes ==
    /\ [][(timers \ timers' # {}) => \E t \in timers : TimerCallback(t)]_vars
    /\ isGenerating ~> (~isGenerating /\ written.file # "none")

\* the callback of an export has just run: a file is written, nothing is
\* pending and the button is free again
WitnessCompleted ==
    /\ lastOp = "generateFile:written"
    /\ written.file # "none"
    /\ timers = {}
    /\ ~isGenerating
    /\ hasMappings

(***************************************************************************)
(* Claims about the value domain.                                          *)
(***************************************************************************)
\* the strings of the cells of a column that are neither absent nor empty
CellStrings(data, columnName) ==
    {JsString(data[k][columnName]) :
        k \in {n \in 1..Len(data) : /\ columnName \in DOMAIN data[n]
                                    /\ data[n][columnName] # Str("")}}

\* C19: the value domain shown for the column of a rule holds exactly the
\* strings of the non-absent, non-empty cells of that column in the loaded
\* dataset, each string once.
ValueDomainIsSet ==
    \A i \in 1..Len(filters) :
        LET options == OptionList(sourceData, filters[i].column)
        IN  /\ Range(options) = CellStrings(sourceData, filters[i].column)
            /\ \A a, b \in 1..Len(options) : a # b => options[a] # options[b]

(***************************************************************************)
(* Claims about the rule list.                                             *)
(***************************************************************************)
\* C21: in every reachable state the ids of the rules of the filter list
\* are pairwise distinct, so that an id addresses one rule.
RuleIdsDistinct ==
    \A i, k \in 1..Len(filters) : i # k => filters[i].id # filters[k].id

(***************************************************************************)
(* The export among the other events: every initial state is a state right *)
(* after generateFile set the timer, with the restored configuration, the  *)
(* first source file and at most one rule; the steps are the callback and  *)
(* the events that change what the callback closed over: file loads, the   *)
(* clear gestures, the format and the edits of the rule.                   *)
(***************************************************************************)
InitSnapshot ==
    /\ InitGenerate
    /\ targetHeaders = EarlierConfig.targetHeaders
    /\ mapping = EarlierConfig.mapping
    /\ staticValues = EarlierConfig.staticValues
    /\ sourceData = SourceXY.rows
    /\ Len(filters) <= 1
    /\ outputFormat = "xlsx"

NextSnapshot ==
    \/ \E t \in timers : TimerCallback(t)
    \/ handleFile(TargetA, "target")
    \/ handleFile(SourceYZ, "source")
    \/ \E r \in readers : ReaderOnload(r)
    \/ \E c \in Columns : unmapField(c)
    \/ \E c \in Columns : ClearButton(c)
    \/ \E fmt \in Formats : setOutputFormat(fmt)
    \/ \E i \in 1..MaxFilters : handleRemoveFilter(i)
    \/ \E i \in 1..MaxFilters, col \in Range(sourceHeaders) : FilterColumnSelect(i, col)
    \/ \E i \in 1..MaxFilters :
          \E o \in ValueOptions(sourceData, IF i \in 1..Len(filters) THEN filters[i].column ELSE "") :
              FilterValueToggle(i, o)

SpecSnapshot == InitSnapshot /\ [][NextSnapshot]_vars

(***************************************************************************)
(* Claims about the export among the other events.                         *)
(***************************************************************************)
\* C22 (snapshot isolation): what a pending callback holds of the moment
\* its export was accepted is changed by no step, and the callback writes
\* the file of the format it holds, with the schema it holds as header row
\* and the rows of the dataset it holds that pass the rules it holds,
\* projected by the mappings and literals it holds, whatever the state has
\* become in the meantime.
SnapshotIsolation ==
    [][/\ (timers' # timers) => \E t \in timers : TimerCallback(t)
       /\ \A t \in timers : TimerCallback(t) =>
             /\ written'.file = (IF t.outputFormat = "csv" THEN "mapped_data.csv"
                                 ELSE "mapped_data.xlsx")
             /\ written'.table[1] =
                    [c \in 1..Len(t.targetHeaders) |-> Str(t.targetHeaders[c])]
             /\ TableHolds(written'.table, t, MatchingRows(t, "undefined"))]_vars

\* the export accepted with A from X, the literal of B and the rule X = SK
\* wrote its two rows as xlsx after another target file and another source
\* file had been loaded and the format changed
WitnessSnapshot ==
    /\ lastOp = "generateFile:written"
    /\ written = [file |-> "mapped_data.xlsx",
                  table |-> << <<Str("A"), Str("B")>>,
                               <<Str("SK"), Str("v")>>,
                               <<Str("SK"), Str("v")>> >>]
    /\ targetHeaders = <<"A">>
    /\ ~hasMappings
    /\ sourceHeaders = <<"Y", "Z">>
    /\ filters = <<>>
    /\ outputFormat = "csv"

(***************************************************************************)
(* Claims about the store and the schema.                                  *)
(***************************************************************************)
\* C23: in every reachable state every column with a source mapping or a
\* literal is a column of the loaded target schema, so that hasMappings
\* holds only if a column of the schema is not Unassigned.
AssignedColumnsInSchema ==
    /\ \A c \in Known :
          Assignment(mapping, staticValues, c) # <<"Unassigned">>
              => c \in Range(targetHeaders)
    /\ hasMappings =>
          \E c \in Range(targetHeaders) :
              Assignment(mapping, staticValues, c) # <<"Unassigned">>

====
